---- MODULE Spec2Model ----
(***************************************************************************)
(* mc-jop-subdivider: greedy largest-first tiling of an image into Joy of  *)
(* Painting canvases, and the export of every tile as a .bmp and a .paint  *)
(* file.                                                                   *)
(*                                                                         *)
(* Two programs of the repository are modelled over the same state:        *)
(*   variant = "run"   the pipeline run / MakeTilePlan / exportTile        *)
(*                     (src/unnamed/part_000, lines 1-319): plan first,    *)
(*                     then export the plan;                               *)
(*   variant = "main"  the single loop of src/main.go: every placement is  *)
(*                     exported at once, inside the scan loop.             *)
(* A third behaviour, variant = "any", is the comparison class of the      *)
(* optimality question: the same scan with an arbitrary fitting catalog    *)
(* entry at every free cell (every exact tiling of the grid).              *)
(***************************************************************************)
EXTENDS Integers, Sequences, FiniteSets, TLC

\* ------------------------------------------------------------------ bounds
MaxRows == 4
MaxCols == 4
MaxBaseID == 1
MaxOptRows == 3
MaxOptCols == 3
MaxFaults == 1

\* --------------------------------------------------------------- constants
Unit == 16
paintingUUID == "d1ebe29f-f4e9-4572-83cd-8b2cdbfc2420"
nameRoot == "img"
OutDir == "tiles"

VARIABLES
  variant,            \* which program runs: "run", "main" (or "any")
  imgW, imgH,         \* pixel bounds of the decoded image
  BaseID,             \* cfg.BaseID / baseID, captured from the clock
  pc,                 \* position of the program
  err,                \* the fatal error the program ended with, or "none"
  rows, cols,         \* grid dimensions in 16px units
  occ,                \* OccGrid.grid: occ[y][x]
  r, c,               \* the scan position
  rowIndex, tileIndex, hasValidTileInRow,   \* MakeTilePlan bookkeeping
  tiles,              \* the plan (run); the placements made so far (main)
  counter,            \* the per-run identity counter
  next,               \* position of the export loop in the plan (1-based)
  files,              \* the output directory: path -> what the file holds
  faults              \* the tiles (by number in placement order) an I/O operation failed for

vars == <<variant, imgW, imgH, BaseID, pc, err, rows, cols, occ, r, c,
          rowIndex, tileIndex, hasValidTileInRow, tiles, counter, next,
          files, faults>>

\* ----------------------------------------------------------------- catalog
canvasTypesSmallestFirst ==
  << [PxW |-> 16, PxH |-> 16, UnitsW |-> 1, UnitsH |-> 1, CT |-> 0],
     [PxW |-> 16, PxH |-> 32, UnitsW |-> 1, UnitsH |-> 2, CT |-> 3],
     [PxW |-> 32, PxH |-> 16, UnitsW |-> 2, UnitsH |-> 1, CT |-> 2],
     [PxW |-> 32, PxH |-> 32, UnitsW |-> 2, UnitsH |-> 2, CT |-> 1] >>

canvasTypesNoSmall ==
  << [PxW |-> 32, PxH |-> 32, UnitsW |-> 2, UnitsH |-> 2, CT |-> 1],
     [PxW |-> 32, PxH |-> 16, UnitsW |-> 2, UnitsH |-> 1, CT |-> 2],
     [PxW |-> 16, PxH |-> 32, UnitsW |-> 1, UnitsH |-> 2, CT |-> 3] >>

canvasTypesNoLarge ==
  << [PxW |-> 32, PxH |-> 16, UnitsW |-> 2, UnitsH |-> 1, CT |-> 2],
     [PxW |-> 16, PxH |-> 32, UnitsW |-> 1, UnitsH |-> 2, CT |-> 3],
     [PxW |-> 16, PxH |-> 16, UnitsW |-> 1, UnitsH |-> 1, CT |-> 0] >>

canvasTypes ==
  << [PxW |-> 32, PxH |-> 32, UnitsW |-> 2, UnitsH |-> 2, CT |-> 1],
     [PxW |-> 32, PxH |-> 16, UnitsW |-> 2, UnitsH |-> 1, CT |-> 2],
     [PxW |-> 16, PxH |-> 32, UnitsW |-> 1, UnitsH |-> 2, CT |-> 3],
     [PxW |-> 16, PxH |-> 16, UnitsW |-> 1, UnitsH |-> 1, CT |-> 0] >>

\* src/main.go keeps pixel sizes only and derives the units in the loop
canvasTypesMain ==
  << [w |-> 32, h |-> 32, ct |-> 1],
     [w |-> 32, h |-> 16, ct |-> 2],
     [w |-> 16, h |-> 32, ct |-> 3],
     [w |-> 16, h |-> 16, ct |-> 0] >>

MainUnits(can) ==
  [PxW |-> can.w, PxH |-> can.h,
   UnitsW |-> can.w \div Unit, UnitsH |-> can.h \div Unit, CT |-> can.ct]

\* the catalog each program scans
Catalog(v) ==
  IF v = "main" THEN [i \in 1..Len(canvasTypesMain) |-> MainUnits(canvasTypesMain[i])]
                ELSE canvasTypes

\* --------------------------------------------------------------- OccGrid
NewOccGrid(nrows, ncols) ==
  [y \in 0..(nrows - 1) |-> [x \in 0..(ncols - 1) |-> FALSE]]

Empty(o, r0, c0, h, w) ==
  \A y \in r0..(r0 + h - 1) : \A x \in c0..(c0 + w - 1) : ~o[y][x]

MarkTopLeftOnly(o, r0, c0, h, w) ==
  [o EXCEPT ![r0][c0] = TRUE]

MarkTopRowOnly(o, r0, c0, h, w) ==
  [y \in DOMAIN o |->
     [x \in DOMAIN o[y] |->
        IF y = r0 /\ x \in c0..(c0 + w - 1) THEN TRUE ELSE o[y][x]]]

Mark(o, r0, c0, h, w) ==
  [y \in DOMAIN o |->
     [x \in DOMAIN o[y] |->
        IF y \in r0..(r0 + h - 1) /\ x \in c0..(c0 + w - 1) THEN TRUE ELSE o[y][x]]]

\* ---------------------------------------------------------- canvas choice
\* the two `continue` tests of the selection loop, negated
Fits(o, nrows, ncols, r0, c0, can) ==
  /\ ~(c0 + can.UnitsW > ncols \/ r0 + can.UnitsH > nrows)
  /\ Empty(o, r0, c0, can.UnitsH, can.UnitsW)

RECURSIVE ScanCatalog(_, _, _, _, _, _, _)
\* the `for _, can := range canvasTypes` loop from entry i on: the index of
\* the entry it breaks at, 0 when it runs off the end (found = false)
ScanCatalog(cat, i, o, nrows, ncols, r0, c0) ==
  IF i > Len(cat) THEN 0
  ELSE IF Fits(o, nrows, ncols, r0, c0, cat[i]) THEN i
  ELSE ScanCatalog(cat, i + 1, o, nrows, ncols, r0, c0)

SelectCanvas(cat, o, nrows, ncols, r0, c0) ==
  ScanCatalog(cat, 1, o, nrows, ncols, r0, c0)

\* ------------------------------------------------------------------ names
Digits == <<"0", "1", "2", "3", "4", "5", "6", "7", "8", "9">>

RECURSIVE Dec(_)
\* %d of a non-negative integer, as the sequence of its digits
Dec(n) == IF n < 10 THEN <<Digits[n + 1]>>
          ELSE Dec(n \div 10) \o <<Digits[(n % 10) + 1]>>

\* fmt.Sprintf("%s_%d_%d", root, a, b)
SprintfBase(root, a, b) == <<root, "_">> \o Dec(a) \o <<"_">> \o Dec(b)

FileBaseRowOnly(root, ri, ti) == SprintfBase(root, ri, 0)

FileBase(root, ri, ti) == SprintfBase(root, ri, ti)

\* src/main.go: nameBase from the grid column and the grid row
MainNameBase(root, c0, r0) == SprintfBase(root, c0, r0)

\* filepath.Join(dir, base + ext)
Join(dir, base, ext) == <<dir, "/">> \o base \o <<ext>>

\* fmt.Sprintf("%s_%d", paintingUUID, BaseID+counter)
TileIdentityNoCounter(base, k) == <<paintingUUID, "_">> \o Dec(base)

TileIdentity(base, k) == <<paintingUUID, "_">> \o Dec(base + k)

\* crop(img, x0, y0, w, h): the sub-image is identified by its rectangle
crop(x0, y0, w, h) == [x0 |-> x0, y0 |-> y0, w |-> w, h |-> h]


\* ------------------------------------------------------------ output files
IOResults == {"ok", "create", "encode"}

\* os.Create truncates: whatever the path held is replaced
WriteFile(fs, path, content) ==
  [p \in (DOMAIN fs) \cup {path} |-> IF p = path THEN content ELSE fs[p]]

\* writeBMP: os.Create fails (no file), bmp.Encode fails (file left
\* incomplete), or the image is written
writeBMP(fs, path, img, k, res) ==
  IF res = "create" THEN fs
  ELSE WriteFile(fs, path,
         [tile |-> k, kind |-> "bmp", complete |-> (res = "ok"), data |-> img])

\* writePaint: the same three outcomes for the gzip-wrapped NBT record
writePaint(fs, path, nbtData, k, res) ==
  IF res = "create" THEN fs
  ELSE WriteFile(fs, path,
         [tile |-> k, kind |-> "paint", complete |-> (res = "ok"), data |-> nbtData])

nbtDataStruct(ct, img, name) ==
  [Generation |-> 1, CT |-> ct, Pixels |-> img, V |-> 2, Name |-> name]

\* exportTile(cfg, tile, counter): the files after the call; the .paint
\* file is not attempted when writeBMP returned an error
exportTile(fs, tile, k, cnt, bmpRes, paintRes) ==
  LET fs1 == writeBMP(fs, Join(OutDir, tile.FileBase, ".bmp"), tile.Img, k, bmpRes)
  IN IF bmpRes # "ok" THEN fs1
     ELSE writePaint(fs1, Join(OutDir, tile.FileBase, ".paint"),
                     nbtDataStruct(tile.CT, tile.Img, TileIdentity(BaseID, cnt)),
                     k, paintRes)

exportTileFailed(bmpRes, paintRes) == bmpRes # "ok" \/ paintRes # "ok"

\* ------------------------------------------------------------------- Init
Variants == {"run", "main"}

InitCommon ==
  /\ BaseID \in 0..MaxBaseID
  /\ pc = "start"
  /\ err = "none"
  /\ rows = 0 /\ cols = 0
  /\ occ = NewOccGrid(0, 0)
  /\ r = 0 /\ c = 0
  /\ rowIndex = 0 /\ tileIndex = 0 /\ hasValidTileInRow = FALSE
  /\ tiles = <<>>
  /\ counter = 0
  /\ next = 1
  /\ files = [p \in {} |-> 0]
  /\ faults = {}

Init ==
  /\ variant \in Variants
  /\ imgW \in 1..(Unit * MaxCols)
  /\ imgH \in 1..(Unit * MaxRows)
  /\ InitCommon

\* --------------------------------------------------- run (part_000 76-109)
DimensionsOK(w, h) == ~(w % Unit # 0 \/ h % Unit # 0)

\* run, lines 84-91: the dimension check and the entry into MakeTilePlan
Validate ==
  /\ variant \in {"run", "any"}
  /\ pc = "start"
  /\ IF ~DimensionsOK(imgW, imgH)
     THEN /\ pc' = "error"
          /\ err' = "dimension"
          /\ UNCHANGED <<rows, cols, occ>>
     ELSE /\ cols' = imgW \div Unit
          /\ rows' = imgH \div Unit
          /\ occ' = NewOccGrid(imgH \div Unit, imgW \div Unit)
          /\ pc' = "plan"
          /\ UNCHANGED err
  /\ UNCHANGED <<variant, imgW, imgH, BaseID, r, c, rowIndex, tileIndex,
                 hasValidTileInRow, tiles, counter, next, files, faults>>

NextRowIndexAlways(ri, hasValid) == ri + 1

\* lines 232-234
NextRowIndex(ri, hasValid) == IF hasValid THEN ri + 1 ELSE ri

\* lines 218-230: mark the footprint and append the tile
PlaceTile(sel) ==
  /\ occ' = Mark(occ, r, c, sel.UnitsH, sel.UnitsW)
  /\ tiles' = Append(tiles,
       [Img |-> crop(c * Unit, r * Unit, sel.PxW, sel.PxH),
        CT |-> sel.CT,
        FileBase |-> FileBase(nameRoot, rowIndex, tileIndex),
        TileIndex |-> tileIndex,
        RowIndex |-> rowIndex])
  /\ hasValidTileInRow' = TRUE
  /\ tileIndex' = tileIndex + 1
  /\ c' = c + 1
  /\ UNCHANGED <<pc, err>>

\* MakeTilePlan, one iteration of `for c := range cols` (lines 195-231)
PlanCell ==
  /\ variant = "run"
  /\ pc = "plan"
  /\ c < cols
  /\ IF ~Empty(occ, r, c, 1, 1)
     THEN /\ c' = c + 1
          /\ UNCHANGED <<pc, err, occ, tiles, hasValidTileInRow, tileIndex>>
     ELSE LET i == SelectCanvas(canvasTypes, occ, rows, cols, r, c)
          IN IF i = 0
             THEN /\ pc' = "error"
                  /\ err' = "nofit"
                  /\ tiles' = <<>>
                  /\ UNCHANGED <<occ, hasValidTileInRow, tileIndex, c>>
             ELSE PlaceTile(canvasTypes[i])
  /\ UNCHANGED <<variant, imgW, imgH, BaseID, rows, cols, r, rowIndex,
                 counter, next, files, faults>>

\* MakeTilePlan, the end of one iteration of `for r := range rows`
\* (lines 232-235, then 193-194 of the next row, or the return at 237)
PlanEndRow ==
  /\ variant \in {"run", "any"}
  /\ pc = "plan"
  /\ c = cols
  /\ rowIndex' = NextRowIndex(rowIndex, hasValidTileInRow)
  /\ r' = r + 1
  /\ c' = 0
  /\ tileIndex' = 0
  /\ hasValidTileInRow' = FALSE
  /\ pc' = IF r + 1 = rows THEN "mkdir" ELSE "plan"
  /\ UNCHANGED <<variant, imgW, imgH, BaseID, err, rows, cols, occ, tiles,
                 counter, next, files, faults>>

\* run, lines 96-100
MkdirAll ==
  /\ variant = "run"
  /\ pc = "mkdir"
  /\ \E ok \in BOOLEAN :
       IF ok THEN /\ pc' = "export"
                  /\ counter' = 0
                  /\ UNCHANGED err
             ELSE /\ pc' = "error"
                  /\ err' = "mkdir"
                  /\ UNCHANGED counter
  /\ UNCHANGED <<variant, imgW, imgH, BaseID, rows, cols, occ, r, c, rowIndex,
                 tileIndex, hasValidTileInRow, tiles, next, files, faults>>

\* run, one iteration of `for _, tile := range plan` (lines 101-107)
ExportTile ==
  /\ variant = "run"
  /\ pc = "export"
  /\ next <= Len(tiles)
  /\ \E bmpRes \in IOResults, paintRes \in IOResults :
       /\ files' = exportTile(files, tiles[next], next, counter, bmpRes, paintRes)
       /\ IF exportTileFailed(bmpRes, paintRes)
          THEN /\ pc' = "error"
               /\ err' = "export"
               /\ faults' = faults \cup {next}
               /\ UNCHANGED <<counter, next>>
          ELSE /\ counter' = counter + 1
               /\ next' = next + 1
               /\ UNCHANGED <<pc, err, faults>>
  /\ UNCHANGED <<variant, imgW, imgH, BaseID, rows, cols, occ, r, c, rowIndex,
                 tileIndex, hasValidTileInRow, tiles>>

\* run, line 108: the plan is exhausted
ExportDone ==
  /\ variant = "run"
  /\ pc = "export"
  /\ next > Len(tiles)
  /\ pc' = "done"
  /\ UNCHANGED <<variant, imgW, imgH, BaseID, err, rows, cols, occ, r, c,
                 rowIndex, tileIndex, hasValidTileInRow, tiles, counter, next,
                 files, faults>>


\* ------------------------------------------------- main (src/main.go 33-180)
\* lines 56-69: log.Fatalf on a dimension that is no multiple of 16
MainValidate ==
  /\ variant = "main"
  /\ pc = "start"
  /\ IF imgW % Unit # 0 \/ imgH % Unit # 0
     THEN /\ pc' = "error"
          /\ err' = "dimension"
          /\ UNCHANGED <<rows, cols, occ>>
     ELSE /\ cols' = imgW \div Unit
          /\ rows' = imgH \div Unit
          /\ occ' = NewOccGrid(imgH \div Unit, imgW \div Unit)
          /\ pc' = "mkdir"
          /\ UNCHANGED err
  /\ UNCHANGED <<variant, imgW, imgH, BaseID, r, c, rowIndex, tileIndex,
                 hasValidTileInRow, tiles, counter, next, files, faults>>

\* lines 72-80: the output directory is made before the scan starts
MainMkdirAll ==
  /\ variant = "main"
  /\ pc = "mkdir"
  /\ \E ok \in BOOLEAN :
       IF ok THEN /\ pc' = "loop"
                  /\ counter' = 0
                  /\ UNCHANGED err
             ELSE /\ pc' = "error"
                  /\ err' = "mkdir"
                  /\ UNCHANGED counter
  /\ UNCHANGED <<variant, imgW, imgH, BaseID, rows, cols, occ, r, c, rowIndex,
                 tileIndex, hasValidTileInRow, tiles, next, files, faults>>

\* lines 144-146: the errors of os.Create and bmp.Encode are dropped; a nil
\* file makes Encode and Close return an error, and nothing is written
MainWriteBMP(fs, path, img, k, res) ==
  IF res = "create" THEN fs
  ELSE WriteFile(fs, path,
         [tile |-> k, kind |-> "bmp", complete |-> (res = "ok"), data |-> img])

\* lines 171-175: the same for the .paint file
MainWritePaint(fs, path, nbtData, k, res) ==
  IF res = "create" THEN fs
  ELSE WriteFile(fs, path,
         [tile |-> k, kind |-> "paint", complete |-> (res = "ok"), data |-> nbtData])

\* line 166: fmt.Sprintf("%s_%d", baseUUID, baseID+counter)
MainTileIdentity(base, k) == <<paintingUUID, "_">> \o Dec(base + k)

\* one iteration of `for c := 0; c < cols; c++` (lines 84-178): the
\* placement and, in the same iteration, the export of the tile
MainCell ==
  /\ variant = "main"
  /\ pc = "loop"
  /\ c < cols
  /\ IF occ[r][c]
     THEN /\ c' = c + 1
          /\ UNCHANGED <<pc, err, occ, tiles, counter, files, faults>>
     ELSE LET cat == Catalog("main")
              i == SelectCanvas(cat, occ, rows, cols, r, c)
          IN IF i = 0
             THEN /\ pc' = "error"
                  /\ err' = "nofit"
                  /\ UNCHANGED <<occ, tiles, counter, files, faults, c>>
             ELSE LET sel == cat[i]
                      sub == crop(c * Unit, r * Unit, sel.PxW, sel.PxH)
                      nameBase == MainNameBase(nameRoot, c, r)
                      k == Len(tiles) + 1
                  IN \E bmpRes \in IOResults, paintRes \in IOResults :
                       /\ exportTileFailed(bmpRes, paintRes) => Cardinality(faults) < MaxFaults
                       /\ occ' = Mark(occ, r, c, sel.UnitsH, sel.UnitsW)
                       /\ tiles' = Append(tiles,
                            [Img |-> sub, CT |-> sel.CT, FileBase |-> nameBase])
                       /\ files' = MainWritePaint(
                            MainWriteBMP(files, Join(OutDir, nameBase, ".bmp"), sub, k, bmpRes),
                            Join(OutDir, nameBase, ".paint"),
                            nbtDataStruct(sel.CT, sub, MainTileIdentity(BaseID, counter)),
                            k, paintRes)
                       /\ counter' = counter + 1
                       /\ faults' = IF exportTileFailed(bmpRes, paintRes)
                                    THEN faults \cup {k} ELSE faults
                       /\ c' = c + 1
                       /\ UNCHANGED <<pc, err>>
  /\ UNCHANGED <<variant, imgW, imgH, BaseID, rows, cols, r, rowIndex, tileIndex,
                 hasValidTileInRow, next>>

\* the end of one iteration of `for r := 0; r < rows; r++` (line 83, 179)
MainEndRow ==
  /\ variant = "main"
  /\ pc = "loop"
  /\ c = cols
  /\ r' = r + 1
  /\ c' = 0
  /\ pc' = IF r + 1 = rows THEN "done" ELSE "loop"
  /\ UNCHANGED <<variant, imgW, imgH, BaseID, err, rows, cols, occ, rowIndex,
                 tileIndex, hasValidTileInRow, tiles, counter, next, files,
                 faults>>

\* ------------------------------------------------------------------- Spec
Next ==
  \/ Validate
  \/ PlanCell
  \/ PlanEndRow
  \/ MkdirAll
  \/ ExportTile
  \/ ExportDone
  \/ MainValidate
  \/ MainMkdirAll
  \/ MainCell
  \/ MainEndRow

Spec == Init /\ [][Next]_vars

\* -------------------------------------------- every exact tiling (SpecOpt)
\* The scan of MakeTilePlan with the selection loop replaced by an arbitrary
\* fitting catalog entry.  The tile that covers the first free cell in
\* row-major order has its top-left corner there, so these behaviours are
\* all the exact tilings of the grid by catalog footprints.  SpecOpt runs
\* them next to MakeTilePlan itself (variant = "run") on the same grids.
AnyCell ==
  /\ variant = "any"
  /\ pc = "plan"
  /\ c < cols
  /\ IF ~Empty(occ, r, c, 1, 1)
     THEN /\ c' = c + 1
          /\ UNCHANGED <<pc, err, occ, tiles, hasValidTileInRow, tileIndex>>
     ELSE \E i \in 1..Len(canvasTypes) :
            /\ Fits(occ, rows, cols, r, c, canvasTypes[i])
            /\ PlaceTile(canvasTypes[i])
  /\ UNCHANGED <<variant, imgW, imgH, BaseID, rows, cols, r, rowIndex,
                 counter, next, files, faults>>

InitOpt ==
  /\ variant \in {"run", "any"}
  /\ imgW \in {Unit * k : k \in 1..MaxOptCols}
  /\ imgH \in {Unit * k : k \in 1..MaxOptRows}
  /\ InitCommon

NextOpt ==
  \/ Validate
  \/ PlanCell
  \/ AnyCell
  \/ PlanEndRow

SpecOpt == InitOpt /\ [][NextOpt]_vars


\* ============================================================== properties
\* vocabulary of the properties, read off the placements alone
PlanningFinished == rows > 0 /\ r = rows

Cells == {<<y, x>> : y \in 0..(rows - 1), x \in 0..(cols - 1)}

TileRow(t) == t.Img.y0 \div Unit
TileCol(t) == t.Img.x0 \div Unit
TileUnitsW(t) == t.Img.w \div Unit
TileUnitsH(t) == t.Img.h \div Unit

Footprint(t) ==
  {<<y, x>> : y \in TileRow(t)..(TileRow(t) + TileUnitsH(t) - 1),
              x \in TileCol(t)..(TileCol(t) + TileUnitsW(t) - 1)}

Covering(cell) == {k \in 1..Len(tiles) : cell \in Footprint(tiles[k])}

RECURSIVE SumArea(_)
SumArea(n) == IF n = 0 THEN 0
              ELSE SumArea(n - 1) + TileUnitsW(tiles[n]) * TileUnitsH(tiles[n])

\* C1: when planning has finished, every grid cell lies in the footprint of
\* exactly one placed tile, and the unit areas of the placed tiles add up to
\* rows*cols.
C1_ExactCover ==
  PlanningFinished =>
    /\ \A cell \in Cells : Cardinality(Covering(cell)) = 1
    /\ SumArea(Len(tiles)) = rows * cols

C1_Witness ==
  /\ PlanningFinished
  /\ rows = 3 /\ cols = 3
  /\ Len(tiles) = 4

\* the catalog order the specification states, as (unit width, unit height, code)
StatedOrder == << <<2, 2, 1>>, <<2, 1, 2>>, <<1, 2, 3>>, <<1, 1, 0>> >>

\* the footprint of entry e anchored at (r0, c0) is inside the grid and free
InBoundsAndFree(o, r0, c0, e) ==
  \A y \in r0..(r0 + e[2] - 1) : \A x \in c0..(c0 + e[1] - 1) :
    y < rows /\ x < cols /\ ~o[y][x]

Placing == Len(tiles') = Len(tiles) + 1

Placed == tiles'[Len(tiles')]

\* C2: every placement at a free cell (r,c) takes the first entry of the
\* order [32x32 code 1, 32x16 code 2, 16x32 code 3, 16x16 code 0] whose
\* footprint at (r,c) is in bounds and free at that moment; a 1x1 grid ends
\* with exactly one tile, of code 0.
C2_FirstFitting ==
  [][ /\ Placing =>
           \E i \in 1..Len(StatedOrder) :
             /\ InBoundsAndFree(occ, r, c, StatedOrder[i])
             /\ \A j \in 1..(i - 1) : ~InBoundsAndFree(occ, r, c, StatedOrder[j])
             /\ Placed.CT = StatedOrder[i][3]
             /\ TileUnitsW(Placed) = StatedOrder[i][1]
             /\ TileUnitsH(Placed) = StatedOrder[i][2]
             /\ TileRow(Placed) = r /\ TileCol(Placed) = c
             /\ ~occ[r][c]
      /\ (PlanningFinished' /\ rows' = 1 /\ cols' = 1) =>
           (Len(tiles') = 1 /\ tiles'[1].CT = 0)
    ]_vars

C2_Witness ==
  /\ PlanningFinished
  /\ {tiles[k].CT : k \in 1..Len(tiles)} = {0, 1, 2, 3}

\* the placements made in physical row y
InRow(y) == {k \in 1..Len(tiles) : TileRow(tiles[k]) = y}

\* C3: the row-group index starts at 0 and grows by exactly 1 at the end of
\* a scanned physical row iff that row produced a placement; a placement's
\* tile index is the number of placements already made in its physical row;
\* a 2-column x 3-row grid gives (code 1, group 0, index 0) at cell (0,0) and
\* (code 2, group 1, index 0) at cell (2,0) and nothing else.
C3_RowGroupIndex ==
  [][ variant = "run" =>
        /\ (pc = "start") => rowIndex = 0
        /\ IF r' = r + 1
           THEN rowIndex' = IF InRow(r) # {} THEN rowIndex + 1 ELSE rowIndex
           ELSE rowIndex' = rowIndex
        /\ Placing =>
             /\ Placed.TileIndex = Cardinality(InRow(r))
             /\ Placed.RowIndex = rowIndex
        /\ (PlanningFinished' /\ rows' = 3 /\ cols' = 2) =>
             /\ Len(tiles') = 2
             /\ tiles'[1].CT = 1 /\ tiles'[1].RowIndex = 0 /\ tiles'[1].TileIndex = 0
             /\ TileRow(tiles'[1]) = 0 /\ TileCol(tiles'[1]) = 0
             /\ tiles'[2].CT = 2 /\ tiles'[2].RowIndex = 1 /\ tiles'[2].TileIndex = 0
             /\ TileRow(tiles'[2]) = 2 /\ TileCol(tiles'[2]) = 0
    ]_vars

C3_Witness ==
  /\ variant = "run"
  /\ PlanningFinished
  /\ rows = 3 /\ cols = 2
  /\ Len(tiles) = 2
  /\ tiles[2].RowIndex = 1


\* the row-group index and the tile index of the k-th placement, counted on
\* the placements: the physical rows above it that start a tile, and the
\* earlier placements of its own physical row
RowGroupOf(k) ==
  Cardinality({TileRow(tiles[j]) : j \in {i \in 1..Len(tiles) :
                                            TileRow(tiles[i]) < TileRow(tiles[k])}})

TileIndexOf(k) ==
  Cardinality({j \in 1..(k - 1) : TileRow(tiles[j]) = TileRow(tiles[k])})

Ext(kind) == IF kind = "bmp" THEN ".bmp" ELSE ".paint"

\* C4: both output files of every exported tile are written under the base
\* name nameRoot_<rowGroupIndex>_<tileIndexWithinGroup> of that tile.
C4_BaseNameIsRowGroupAndTileIndex ==
  \A p \in DOMAIN files :
    p = Join(OutDir,
             SprintfBase(nameRoot, RowGroupOf(files[p].tile), TileIndexOf(files[p].tile)),
             Ext(files[p].kind))

\* C4 on the pipeline run / MakeTilePlan / exportTile alone
C4_RunOnly == variant = "run" => C4_BaseNameIsRowGroupAndTileIndex

PaintFiles == {p \in DOMAIN files : files[p].kind = "paint"}

\* the tiles whose export has been carried out
ExportsDone == IF variant = "main" THEN Len(tiles) ELSE next - 1

\* C5: the counter starts at 0 and is one more after each exported tile, so
\* the descriptor of the k-th tile in planning order (k = 0,1,...) carries
\* namespaceUUID_(baseID + k); the identities written in one run are
\* pairwise distinct and increase in planning order.
C5_IdentityIsBasePlusOrdinal ==
  /\ (pc = "start") => counter = 0
  /\ counter = ExportsDone
  /\ \A p \in PaintFiles :
       files[p].data.Name = <<paintingUUID, "_">> \o Dec(BaseID + (files[p].tile - 1))
  /\ \A p \in PaintFiles : \A q \in PaintFiles :
       /\ (p # q) => files[p].data.Name # files[q].data.Name
       /\ (files[p].tile < files[q].tile) =>
            \E m \in 0..Len(tiles) : \E n \in 0..Len(tiles) :
              /\ m < n
              /\ files[p].data.Name = <<paintingUUID, "_">> \o Dec(BaseID + m)
              /\ files[q].data.Name = <<paintingUUID, "_">> \o Dec(BaseID + n)

C5_Witness ==
  /\ pc = "done"
  /\ counter = 4
  /\ Cardinality(PaintFiles) = 4

FilesOf(k) == {p \in DOMAIN files : files[p].tile = k}

\* C6: a run that meets no I/O failure and starts with an empty directory
\* ends with exactly 2N files; the base names of the tiles are pairwise
\* distinct, and each tile has exactly one .bmp and one .paint file.
C6_TwoFilesPerTile ==
  /\ \A j \in 1..Len(tiles) : \A k \in 1..Len(tiles) :
       (j # k) => tiles[j].FileBase # tiles[k].FileBase
  /\ (pc = "done" /\ faults = {}) =>
       /\ Cardinality(DOMAIN files) = 2 * Len(tiles)
       /\ \A k \in 1..Len(tiles) :
            /\ Cardinality({p \in FilesOf(k) : files[p].kind = "bmp"}) = 1
            /\ Cardinality({p \in FilesOf(k) : files[p].kind = "paint"}) = 1
            /\ \A p \in FilesOf(k) :
                 /\ files[p].complete
                 /\ p = Join(OutDir, tiles[k].FileBase, Ext(files[p].kind))

C6_Witness ==
  /\ pc = "done"
  /\ faults = {}
  /\ Cardinality(DOMAIN files) = 8

\* C7: planning completes before any export begins (no output file exists
\* while a grid cell is still unplanned), and the tiles are exported one at
\* a time in the order of their placement.
C7_PlanThenExportInOrder ==
  /\ (DOMAIN files # {}) => \A cell \in Cells : occ[cell[1]][cell[2]]
  /\ \A p \in DOMAIN files : \A k \in 1..(files[p].tile - 1) : FilesOf(k) # {}

\* C7 on the pipeline run / MakeTilePlan / exportTile alone
C7_RunOnly == variant = "run" => C7_PlanThenExportInOrder

\* C8: a failure to create the output directory, to open an output file or
\* to encode an artifact aborts the run at once: no file of a later tile is
\* created and the counter does not pass the failing tile.
C8_AbortOnIOFailure ==
  /\ (err = "mkdir") => (pc = "error" /\ DOMAIN files = {} /\ counter = 0)
  /\ \A k \in faults :
       /\ pc = "error"
       /\ err = "export"
       /\ counter = k - 1
       /\ \A p \in DOMAIN files : files[p].tile <= k

\* C8, second half: a file written for an earlier tile is never changed
C8_EarlierFilesKept ==
  [][\A p \in DOMAIN files : p \in DOMAIN files' /\ files'[p] = files[p]]_vars

\* C8 on the pipeline run / MakeTilePlan / exportTile alone
C8_RunOnly == variant = "run" => C8_AbortOnIOFailure

\* C9: an image whose width or height is no multiple of 16 is rejected with
\* the dimension error before any tile is placed, and the planner never ends
\* with the no-canvas-fits error.
C9_NoFitUnreachable ==
  /\ err # "nofit"
  /\ (imgW % 16 # 0 \/ imgH % 16 # 0) =>
       /\ pc = "start" \/ (pc = "error" /\ err = "dimension")
       /\ tiles = <<>>
       /\ DOMAIN files = {}
  /\ (imgW % 16 = 0 /\ imgH % 16 = 0) => err # "dimension"

C9_Witness ==
  /\ pc = "error"
  /\ err = "dimension"
  /\ imgW % 16 = 0
  /\ imgH % 16 # 0

CeilHalf(n) == (n + 1) \div 2

\* C10: the greedy planner places ceil(rows/2)*ceil(cols/2) tiles, and no
\* exact, non-overlapping tiling of the grid by catalog footprints has fewer.
C10_GreedyCountIsMinimum ==
  PlanningFinished =>
    /\ \A cell \in Cells : Cardinality(Covering(cell)) = 1
    /\ (variant = "run") => Len(tiles) = CeilHalf(rows) * CeilHalf(cols)
    /\ (variant = "any") => Len(tiles) >= CeilHalf(rows) * CeilHalf(cols)

C10_Witness ==
  /\ variant = "any"
  /\ PlanningFinished
  /\ rows = 3 /\ cols = 3
  /\ Len(tiles) = 4
  /\ tiles[1].CT = 3


\* C11: every placed tile has its top-left cell at an even grid row and an
\* even grid column, its row-group index is row/2 and its tile index is
\* column/2; so an odd physical row never produces a placement, and the pair
\* (row-group index, tile index) determines the tile's grid position.
C11_EvenAnchors ==
  /\ \A k \in 1..Len(tiles) :
       /\ TileRow(tiles[k]) % 2 = 0
       /\ TileCol(tiles[k]) % 2 = 0
  /\ (variant = "run") =>
       /\ \A k \in 1..Len(tiles) :
            /\ tiles[k].RowIndex = TileRow(tiles[k]) \div 2
            /\ tiles[k].TileIndex = TileCol(tiles[k]) \div 2
       /\ (pc = "plan" /\ r % 2 = 1) => (~hasValidTileInRow /\ tileIndex = 0)
       /\ \A j \in 1..Len(tiles) : \A k \in 1..Len(tiles) :
            (tiles[j].RowIndex = tiles[k].RowIndex /\ tiles[j].TileIndex = tiles[k].TileIndex)
              => (j = k)

C11_Witness ==
  /\ variant = "run"
  /\ PlanningFinished
  /\ rows = 4 /\ cols = 3
  /\ Len(tiles) = 4
  /\ tiles[4].RowIndex = 1 /\ tiles[4].TileIndex = 1
  /\ TileRow(tiles[4]) = 2 /\ TileCol(tiles[4]) = 2

====
